---- MODULE Spec2Model ----
\* Chunked upload of local-drive: the client orchestrator
\* (filesApi.uploadFileChunked, frontend/src/lib/api.ts), the upload component
\* that drives it (ChunkedFileUpload: uploadFile, cancelUpload) and the upload
\* session kept by the backend, whose source is not part of the frontend tree
\* and is modelled from the specification's sections 3, 4 and 6.
\*
\* Spec follows one upload item from the file selection to its terminal
\* state.  ServerSpec is the backend's interface on one session, JanitorSpec
\* the janitor beside two sessions and the clock, AllocSpec the disk
\* allocator; the three are modelled from the specification's sections 3 to 5.
\* NavSpec is one navigation through the middleware and the pages' guards
\* from any cookie and persisted store, AuthSpec the auth store in use from
\* its initial state (frontend/src/store/auth.ts, the middleware, the login,
\* dashboard and admin pages), ListSpec the component with two files
\* uploading side by side.
\* Sizes are bytes.  Values the code computes as fractions are kept exact:
\*   - an event's uploadedSize is stored multiplied by Hundred (the code's
\*     chunkProgress / 100 * currentChunkSize is a multiple of 1/100 byte);
\*   - an event's progress is stored multiplied by file.size (the code's
\*     totalUploadedSize / file.size * 100), so "progress = 100" reads
\*     progress = Hundred * fileSize.
EXTENDS Integers, Sequences, FiniteSets, TLC

\* ---------------------------------------------------------------- bounds
MaxFileSize == 5
MaxChunkSize == 3

\* ------------------------------------------------------ program constants
Hundred == 100

LocalId == "local"
ServerId == "srv"
NoId == ""

NetworkErrorMessage == "Network Error"
RejectedMessage == "Request failed"

VARIABLES
    pc,            \* where uploadFileChunked stands: idle, initiate, chunk, complete, done, failed
    fileSize,      \* file.size
    chunkSize,     \* chunkSize argument
    upload_id,     \* initResponse.upload_id
    total_chunks,  \* initResponse.total_chunks
    chunkNumber,   \* loop variable
    uploadedSize,  \* let uploadedSize
    loaded,        \* progressEvent.loaded last reported for the request in flight
    net,           \* the orchestrator's request: none, toServer, ok, rejected, netErr
    response,      \* body of the response to initiate
    events,        \* every progress passed to onProgress, hence to onUploadProgress
    log,           \* requests issued and responses received by the orchestrator
    uploads,       \* the component's upload list
    successMessage,
    completeCalls, \* number of onUploadComplete calls
    cancelState,   \* the component's cancel: none, toServer, ok, failed, done
    cancelId,      \* the id the cancel request is addressed to
    session,       \* the backend's UploadSession of this upload
    storedFiles,   \* number of StoredFile records of this upload
    sessions,      \* UploadSessionStore: the sessions by id
    files,         \* the StoredFile records readers see
    now,           \* the backend's clock
    sweep,         \* SessionJanitor: the sweep in progress
    last,          \* the backend operation that made the last step, and its result
    disks,         \* DiskAllocator: the DiskRecords in priority order
    chosen,        \* the last choose_disk call and what it returned
    user,          \* useAuthStore: user
    token,         \* useAuthStore: token
    isAuthenticated,
    isLoading,
    cookie,        \* the value of the auth-token cookie
    pathname,      \* the path requested or shown, as its segments
    nav,           \* the navigation: request, mount, guard, settled
    redirects,     \* redirects since the navigation began
    calls,         \* the uploadFile calls of a list of several files, by item id
    sent           \* the request those calls and their cancels have sent last

vars == << pc, fileSize, chunkSize, upload_id, total_chunks, chunkNumber,
           uploadedSize, loaded, net, response, events, log, uploads,
           successMessage, completeCalls, cancelState, cancelId, session,
           storedFiles, sessions, files, now, sweep, last, disks, chosen,
           user, token, isAuthenticated, isLoading, cookie, pathname, nav,
           redirects, calls, sent >>

clientVars == << pc, fileSize, chunkSize, upload_id, total_chunks, chunkNumber,
                 uploadedSize, loaded, events, log >>

componentVars == << uploads, successMessage, completeCalls >>

cancelVars == << cancelState, cancelId >>

serverVars == << session, storedFiles >>

backendVars == << sessions, files, now, sweep, last >>

allocVars == << disks, chosen >>

authVars == << user, token, isAuthenticated, isLoading, cookie >>

navVars == << pathname, nav, redirects >>

webVars == << authVars, navVars >>

listVars == << calls, sent >>

\* everything of the browser and of its one upload
uploadVars == << clientVars, net, response, componentVars, cancelVars, serverVars >>

\* ---------------------------------------------------------------- helpers
Min(a, b) == IF a <= b THEN a ELSE b

Last(s) == s[Len(s)]

\* ceil(a / b) for a >= 0, b > 0
CeilDiv(a, b) == (a + b - 1) \div b

\* Math.round(x / y) for x >= 0, y > 0: floor(x / y + 1/2)
RoundDiv(x, y) == (2 * x + y) \div (2 * y)

RECURSIVE SumOver(_, _)
SumOver(S, f) ==
    IF S = {} THEN 0
    ELSE LET x == CHOOSE y \in S : TRUE
         IN  f[x] + SumOver(S \ {x}, f)

\* ------------------------------------------- uploadFileChunked: slicing
\* const start = (chunkNumber - 1) * chunkSize
ChunkStart(n) == (n - 1) * chunkSize

\* the slice end without the clamp to file.size
ChunkEndUnclamped(n) == ChunkStart(n) + chunkSize

\* const end = Math.min(start + chunkSize, file.size)
ChunkEnd(n) == Min(ChunkStart(n) + chunkSize, fileSize)

\* const currentChunkSize = end - start
currentChunkSize(n) == ChunkEnd(n) - ChunkStart(n)

\* uploadChunk's onUploadProgress: Math.round((loaded * 100) / total)
chunkProgress(ld, total) == RoundDiv(ld * Hundred, total)

\* uploadedSize + (chunkProgress / 100) * currentChunkSize, times Hundred
totalUploadedSize(n, cp) == Hundred * uploadedSize + cp * currentChunkSize(n)

\* the loop step skipping a chunk
NextChunkSkips(n) == n + 2

\* for (...; ...; chunkNumber++)
NextChunk(n) == n + 1

\* the loop test off by one: the last chunk is never sent
LoopStopsEarly(n, tc) == n < tc

\* for (...; chunkNumber <= total_chunks; ...)
LoopContinues(n, tc) == n <= tc

\* ----------------------------------------- uploadFileChunked: the events
\* status 'uploading': progress = (uploadedSize / file.size) * 100
UploadingEvent(us) ==
    [ uploadId |-> upload_id, uploadedSize |-> us, progress |-> us,
      status |-> "uploading", error |-> "" ]

\* status 'completed': uploadedSize: file.size, progress: 100
CompletedEvent ==
    [ uploadId |-> upload_id, uploadedSize |-> Hundred * fileSize,
      progress |-> Hundred * fileSize, status |-> "completed", error |-> "" ]

\* the catch block: uploadId: '', uploadedSize: 0, progress: 0, status 'error'
ErrorEvent(msg) ==
    [ uploadId |-> NoId, uploadedSize |-> 0, progress |-> 0,
      status |-> "error", error |-> msg ]

\* error instanceof Error ? error.message : 'Upload failed'
ErrorMessage(n) ==
    IF n = "netErr" THEN NetworkErrorMessage ELSE RejectedMessage

\* ------------------------------------------------ the upload component
initialProgress ==
    [ uploadId |-> LocalId, uploadedSize |-> 0, progress |-> 0,
      status |-> "uploading", error |-> "" ]

uploadItem == [ id |-> LocalId, progress |-> initialProgress ]

\* a map that forgets to compare the ids
setProgressOfAll(ups, id, p) ==
    [ i \in DOMAIN ups |-> [ ups[i] EXCEPT !.progress = p ] ]

\* setUploads(prev => prev.map(item => item.id === uploadId ? {...item, progress} : item))
setProgress(ups, id, p) ==
    [ i \in DOMAIN ups |->
        IF ups[i].id = id THEN [ ups[i] EXCEPT !.progress = p ] ELSE ups[i] ]

\* setUploads(prev => prev.filter(item => item.id !== uploadId))
removeItem(ups, id) == SelectSeq(ups, LAMBDA item : item.id # id)

\* the catch of uploadFile: {...item.progress, status: 'error', error: message}
markError(ups, id, msg) ==
    [ i \in DOMAIN ups |->
        IF ups[i].id = id
        THEN [ ups[i] EXCEPT !.progress.status = "error", !.progress.error = msg ]
        ELSE ups[i] ]

\* uploads.find(u => u.id === uploadId)
findUpload(ups, id) == { i \in DOMAIN ups : ups[i].id = id }

\* the progress callback uploadFile hands to uploadFileChunked
onProgress(p) ==
    /\ events' = Append(events, p)
    /\ uploads' = setProgress(uploads, LocalId, p)

\* ------------------------------------------------------ the request log
SendEntry(kind, n) ==
    [ op |-> "send", kind |-> kind, n |-> n,
      start |-> IF kind = "chunk" THEN ChunkStart(n) ELSE 0,
      end |-> IF kind = "chunk" THEN ChunkEnd(n) ELSE 0 ]

ReplyEntry(op, kind, n) ==
    [ op |-> op, kind |-> kind, n |-> n, start |-> 0, end |-> 0 ]

\* --------------------------------------------------- the backend session
NoSession ==
    [ id |-> NoId, status |-> "None", total_size |-> 0, chunk_size |-> 0,
      total_chunks |-> 0, received |-> {} ]

\* the body of the last response: initiate's upload_id and total_chunks,
\* upload_chunk's uploaded and upload_completed flags
NoResponse ==
    [ upload_id |-> NoId, total_chunks |-> 0, uploaded |-> FALSE,
      upload_completed |-> FALSE ]

\* section 3: chunk_size for i < total_chunks, the rest for the final chunk
ExpectedSize(s, i) ==
    IF i < s.total_chunks THEN s.chunk_size
    ELSE s.total_size - s.chunk_size * (s.total_chunks - 1)

\* section 4.3: the validation of ChunkReceiver.receive, in order
ChunkAccepted(s, id, i, size) ==
    /\ s.id = id
    /\ s.status = "Active"
    /\ 1 <= i /\ i <= s.total_chunks
    /\ size = ExpectedSize(s, i)

\* section 4.4: the preconditions of FinalizationPipeline.complete
CompleteAccepted(s, id) ==
    /\ s.id = id
    /\ s.status = "Active"
    /\ s.received = 1 .. s.total_chunks

\* ------------------------------------------------- a list of several files
\* the ids uploadFile gives its items (Math.random().toString(36).substr(2, 9)),
\* taken to be different for different items
ItemIds == { "a", "b" }

\* the upload_ids initiate issues, one per session
UploadIds == { "s1", "s2" }

MaxListChunks == 2
ListChunkSize == 2

\* a call of uploadFile: where its uploadFileChunked stands, the constants
\* upload_id and total_chunks of that call, its loop variable, and the
\* cancelUpload of its item
NoCall ==
    [ pc |-> "idle", upload_id |-> NoId, total_chunks |-> 0, chunkNumber |-> 0,
      cancel |-> "none" ]

\* a request sent on behalf of item, addressed to session id; n is the
\* chunk number of a chunk request
Request(item, kind, id, n) == [ item |-> item, kind |-> kind, id |-> id, n |-> n ]

NoRequest == Request(NoId, "none", NoId, 0)

\* initialProgress of the item x
ItemInitial(x) ==
    [ uploadId |-> x, uploadedSize |-> 0, progress |-> 0,
      status |-> "uploading", error |-> "" ]

\* the 'uploading' event of the call c
ItemUploading(c, us) ==
    [ uploadId |-> c.upload_id, uploadedSize |-> us, progress |-> us,
      status |-> "uploading", error |-> "" ]

\* the 'completed' event of the call c
ItemCompleted(c) ==
    [ uploadId |-> c.upload_id,
      uploadedSize |-> Hundred * ListChunkSize * c.total_chunks,
      progress |-> Hundred * ListChunkSize * c.total_chunks,
      status |-> "completed", error |-> "" ]

\* the entries of the list whose id is x
ItemsOf(ups, x) == { ups[i] : i \in findUpload(ups, x) }

\* -------------------------------------------------------- the auth store
\* null, for the store's token and user
Null == "null"

\* no auth-token cookie
NoCookie == "none"

Tokens == { "t1", "t2" }

\* a User, by what the pages read of it: is_admin
Users == { "admin", "plain" }

is_admin(u) == u = "admin"

\* a login that does not store the user
loginWithoutUser(t, u) ==
    /\ cookie' = t
    /\ token' = t
    /\ user' = user
    /\ isAuthenticated' = TRUE
    /\ isLoading' = FALSE

\* login: the cookie is written, then set({token, user, isAuthenticated: true, isLoading: false})
login(t, u) ==
    /\ cookie' = t
    /\ token' = t
    /\ user' = u
    /\ isAuthenticated' = TRUE
    /\ isLoading' = FALSE

\* a logout that forgets to expire the cookie
logoutKeepsCookie ==
    /\ cookie' = cookie
    /\ token' = Null
    /\ user' = Null
    /\ isAuthenticated' = FALSE
    /\ isLoading' = FALSE

\* logout: the cookie is expired, then set({token: null, user: null, isAuthenticated: false, isLoading: false})
logout ==
    /\ cookie' = NoCookie
    /\ token' = Null
    /\ user' = Null
    /\ isAuthenticated' = FALSE
    /\ isLoading' = FALSE

\* setLoading: set({isLoading: loading})
setLoading(loading) ==
    /\ isLoading' = loading
    /\ UNCHANGED << user, token, isAuthenticated, cookie >>

\* an initializeAuth that trusts the cookie alone
initializeAuthByCookie ==
    IF cookie # NoCookie
    THEN /\ isAuthenticated' = TRUE
         /\ UNCHANGED << user, token, isLoading, cookie >>
    ELSE /\ token' = Null
         /\ user' = Null
         /\ isAuthenticated' = FALSE
         /\ UNCHANGED << isLoading, cookie >>

\* initializeAuth: the three branches on cookieToken, state.token, state.user
initializeAuth ==
    IF cookie # NoCookie /\ token # Null /\ user # Null
    THEN /\ isAuthenticated' = TRUE
         /\ UNCHANGED << user, token, isLoading, cookie >>
    ELSE IF cookie = NoCookie
    THEN /\ token' = Null
         /\ user' = Null
         /\ isAuthenticated' = FALSE
         /\ UNCHANGED << isLoading, cookie >>
    ELSE /\ token' = Null
         /\ user' = Null
         /\ isAuthenticated' = FALSE
         /\ cookie' = NoCookie
         /\ isLoading' = isLoading

\* ---------------------------------------------------------- the middleware
\* paths, by their segments: '/', '/login', '/admin', '/login/x',
\* '/files/api', '/files/apix'
RootPath == << >>
LoginPath == << "login" >>
AdminPath == << "admin" >>

Paths ==
    { RootPath, LoginPath, AdminPath, << "login", "x" >>,
      << "files", "api" >>, << "files", "apix" >> }

\* the segments that begin with 'api'
ApiSegments == { "api", "apix" }

\* publicPaths.some(path => pathname === path)
isPublicPath(path) == path = LoginPath

\* pathname.includes('/api')
includesApi(path) == \E k \in DOMAIN path : path[k] \in ApiSegments

\* a middleware that guards every path but the public one
middlewareGuardsAll(path, tok) ==
    IF isPublicPath(path) /\ tok # NoCookie THEN RootPath
    ELSE IF ~ isPublicPath(path) /\ tok = NoCookie THEN LoginPath
    ELSE path

\* middleware(request): the path the request ends on, itself when it is
\* passed through
middleware(path, tok) ==
    IF isPublicPath(path) /\ tok # NoCookie THEN RootPath
    ELSE IF ~ isPublicPath(path) /\ ~ includesApi(path) /\ tok = NoCookie THEN LoginPath
    ELSE path

\* the pages that mount the auth guards
GuardedPages == { RootPath, LoginPath, AdminPath }

\* the guard of the page at path: does it call router.push, and where to
GuardTarget(path) == IF path = LoginPath THEN RootPath ELSE LoginPath

\* a login page that sends every visitor on
GuardFiresAlways(path) ==
    IF path = LoginPath THEN ~ isLoading
    ELSE IF path = RootPath THEN ~ isAuthenticated /\ ~ isLoading
    ELSE ( ~ isAuthenticated \/ ~ is_admin(user) ) /\ ~ isLoading

\* the condition of the page's second effect
GuardFires(path) ==
    IF path = LoginPath THEN isAuthenticated /\ ~ isLoading
    ELSE IF path = RootPath THEN ~ isAuthenticated /\ ~ isLoading
    ELSE ( ~ isAuthenticated \/ ~ is_admin(user) ) /\ ~ isLoading

\* the store as created, no cookie, no page requested yet
WebIdle ==
    /\ user = Null
    /\ token = Null
    /\ isAuthenticated = FALSE
    /\ isLoading = FALSE
    /\ cookie = NoCookie
    /\ pathname = LoginPath
    /\ nav = "settled"
    /\ redirects = 0

\* a user is logged in and the dashboard, which holds the upload
\* component, is shown
DashboardOpen ==
    /\ user = "plain"
    /\ token = "t1"
    /\ isAuthenticated = TRUE
    /\ isLoading = FALSE
    /\ cookie = "t1"
    /\ pathname = RootPath
    /\ nav = "settled"
    /\ redirects = 0

\* ------------------------------------------------------------------ Init
\* the component before a file is selected
UploadInit ==
    /\ pc = "idle"
    /\ fileSize = 0
    /\ chunkSize = 0
    /\ upload_id = NoId
    /\ total_chunks = 0
    /\ chunkNumber = 0
    /\ uploadedSize = 0
    /\ loaded = 0
    /\ net = "none"
    /\ response = NoResponse
    /\ events = << >>
    /\ log = << >>
    /\ uploads = << >>
    /\ successMessage = FALSE
    /\ completeCalls = 0
    /\ cancelState = "none"
    /\ cancelId = NoId
    /\ session = NoSession
    /\ storedFiles = 0
    /\ calls = [ x \in ItemIds |-> NoCall ]
    /\ sent = NoRequest

\* ------------------------------------------------------- the orchestrator
\* uploadFile up to its first await: the item is appended to the list and
\* uploadFileChunked sends initiate.  Files are not empty.
uploadFile(size, cs) ==
    /\ pc = "idle"
    /\ fileSize' = size
    /\ chunkSize' = cs
    /\ uploads' = Append(uploads, uploadItem)
    /\ pc' = "initiate"
    /\ net' = "toServer"
    /\ log' = Append(log, [ op |-> "send", kind |-> "initiate", n |-> 0,
                            start |-> 0, end |-> 0 ])
    /\ UNCHANGED << upload_id, total_chunks, chunkNumber, uploadedSize, loaded,
                    response, events, successMessage, completeCalls >>
    /\ UNCHANGED << cancelVars, serverVars >>
    /\ UNCHANGED << backendVars, allocVars, webVars, listVars >>

\* the head of the for loop with the log so far: the next chunk is sliced
\* and sent, or the loop is left and complete is sent
LoopHead(n, tc, lg) ==
    /\ chunkNumber' = n
    /\ loaded' = 0
    /\ net' = "toServer"
    /\ IF LoopContinues(n, tc)
       THEN /\ pc' = "chunk"
            /\ log' = Append(lg, SendEntry("chunk", n))
       ELSE /\ pc' = "complete"
            /\ log' = Append(lg, SendEntry("complete", 0))

\* initiate resolves: upload_id and total_chunks are read, uploadedSize = 0
InitiateReturns ==
    /\ pc = "initiate"
    /\ net = "ok"
    /\ upload_id' = response.upload_id
    /\ total_chunks' = response.total_chunks
    /\ uploadedSize' = 0
    /\ LoopHead(1, response.total_chunks,
                Append(log, ReplyEntry("ok", "initiate", 0)))
    /\ UNCHANGED << fileSize, chunkSize, response, events >>
    /\ UNCHANGED << componentVars, cancelVars, serverVars >>
    /\ UNCHANGED << backendVars, allocVars, webVars, listVars >>

\* an upload progress event of the chunk request in flight; loaded grows
ChunkProgress(ld) ==
    /\ pc = "chunk"
    /\ net = "toServer"
    /\ ld > loaded
    /\ ld <= currentChunkSize(chunkNumber)
    /\ loaded' = ld
    /\ onProgress(UploadingEvent(
          totalUploadedSize(chunkNumber,
              chunkProgress(ld, currentChunkSize(chunkNumber)))))
    /\ UNCHANGED << pc, fileSize, chunkSize, upload_id, total_chunks,
                    chunkNumber, uploadedSize, net, response, log,
                    successMessage, completeCalls >>
    /\ UNCHANGED << cancelVars, serverVars >>
    /\ UNCHANGED << backendVars, allocVars, webVars, listVars >>

\* uploadChunk resolves: uploadedSize += end - start, one more event, and
\* the loop goes on
ChunkReturns ==
    /\ pc = "chunk"
    /\ net = "ok"
    /\ uploadedSize' = uploadedSize + currentChunkSize(chunkNumber)
    /\ onProgress(UploadingEvent(Hundred * uploadedSize'))
    /\ LoopHead(NextChunk(chunkNumber), total_chunks,
                Append(log, ReplyEntry("ok", "chunk", chunkNumber)))
    /\ UNCHANGED << fileSize, chunkSize, upload_id, total_chunks, response,
                    successMessage, completeCalls >>
    /\ UNCHANGED << cancelVars, serverVars >>
    /\ UNCHANGED << backendVars, allocVars, webVars, listVars >>

\* complete resolves: the 'completed' event, then uploadFile removes the
\* item, shows the success message and calls onUploadComplete
CompleteReturns ==
    /\ pc = "complete"
    /\ net = "ok"
    /\ events' = Append(events, CompletedEvent)
    /\ uploads' = removeItem(setProgress(uploads, LocalId, CompletedEvent), LocalId)
    /\ successMessage' = TRUE
    /\ completeCalls' = completeCalls + 1
    /\ pc' = "done"
    /\ net' = "none"
    /\ log' = Append(log, ReplyEntry("ok", "complete", 0))
    /\ UNCHANGED << fileSize, chunkSize, upload_id, total_chunks, chunkNumber,
                    uploadedSize, loaded, response >>
    /\ UNCHANGED << cancelVars, serverVars >>
    /\ UNCHANGED << backendVars, allocVars, webVars, listVars >>

\* an interceptor that lets a 401 go by
onResponseErrorIgnored(unauthorized) == UNCHANGED webVars

\* api.interceptors.response, the error handler: a 401 logs out and sends
\* the window to '/login'; the error is rejected on in every case
onResponseError(unauthorized) ==
    IF unauthorized
    THEN /\ logout
         /\ pathname' = LoginPath
         /\ nav' = "request"
         /\ redirects' = 0
    ELSE UNCHANGED webVars

\* a catch that swallows the failure: the run ends without a word
RequestFailsSilently ==
    /\ pc \in { "initiate", "chunk", "complete" }
    /\ net \in { "rejected", "netErr" }
    /\ log' = Append(log, ReplyEntry(net, pc, IF pc = "chunk" THEN chunkNumber ELSE 0))
    /\ pc' = "failed"
    /\ net' = "none"
    /\ UNCHANGED << fileSize, chunkSize, upload_id, total_chunks, chunkNumber,
                    uploadedSize, loaded, response, events >>
    /\ UNCHANGED << componentVars, cancelVars, serverVars >>
    /\ UNCHANGED << backendVars, allocVars, webVars, listVars >>

\* a catch that also asks the backend to cancel the session
RequestFailsAndCancels ==
    /\ pc \in { "initiate", "chunk", "complete" }
    /\ net \in { "rejected", "netErr" }
    /\ events' = Append(events, ErrorEvent(ErrorMessage(net)))
    /\ uploads' = markError(setProgress(uploads, LocalId, ErrorEvent(ErrorMessage(net))),
                            LocalId, ErrorMessage(net))
    /\ log' = Append(log, ReplyEntry(net, pc, IF pc = "chunk" THEN chunkNumber ELSE 0))
    /\ pc' = "failed"
    /\ net' = "none"
    /\ cancelState' = IF cancelState = "none" THEN "toServer" ELSE cancelState
    /\ cancelId' = IF cancelState = "none" THEN upload_id ELSE cancelId
    /\ UNCHANGED << fileSize, chunkSize, upload_id, total_chunks, chunkNumber,
                    uploadedSize, loaded, response, successMessage, completeCalls >>
    /\ UNCHANGED serverVars
    /\ UNCHANGED << backendVars, allocVars, webVars, listVars >>

\* any awaited request rejects: the catch of uploadFileChunked emits the
\* 'error' event and rethrows, the catch of uploadFile marks the item
RequestFails ==
    /\ pc \in { "initiate", "chunk", "complete" }
    /\ net \in { "rejected", "netErr", "unauthorized" }
    /\ onResponseError(net = "unauthorized")
    /\ events' = Append(events, ErrorEvent(ErrorMessage(net)))
    /\ uploads' = markError(setProgress(uploads, LocalId, ErrorEvent(ErrorMessage(net))),
                            LocalId, ErrorMessage(net))
    /\ log' = Append(log, ReplyEntry(net, pc, IF pc = "chunk" THEN chunkNumber ELSE 0))
    /\ pc' = "failed"
    /\ net' = "none"
    /\ UNCHANGED << fileSize, chunkSize, upload_id, total_chunks, chunkNumber,
                    uploadedSize, loaded, response, successMessage, completeCalls >>
    /\ UNCHANGED << cancelVars, serverVars >>
    /\ UNCHANGED << backendVars, allocVars, listVars >>

\* setTimeout(() => setSuccessMessage(null), 3000)
successTimeout ==
    /\ successMessage
    /\ successMessage' = FALSE
    /\ UNCHANGED << clientVars, net, response, uploads, completeCalls >>
    /\ UNCHANGED << cancelVars, serverVars >>
    /\ UNCHANGED << backendVars, allocVars, webVars, listVars >>

\* ---------------------------------------------------------- cancelUpload
\* The Cancel button is rendered for an item whose status is 'uploading'.
\* cancelUpload up to its await: the cancel request goes to the uploadId the
\* item's progress holds; an item without one is removed at once.
cancelUpload ==
    /\ cancelState = "none"
    /\ \E i \in findUpload(uploads, LocalId) :
          /\ uploads[i].progress.status = "uploading"
          /\ IF uploads[i].progress.uploadId # NoId
             THEN /\ cancelId' = uploads[i].progress.uploadId
                  /\ cancelState' = "toServer"
                  /\ uploads' = uploads
             ELSE /\ cancelId' = cancelId
                  /\ cancelState' = "done"
                  /\ uploads' = removeItem(uploads, LocalId)
    /\ UNCHANGED << clientVars, net, response, successMessage, completeCalls >>
    /\ UNCHANGED serverVars
    /\ UNCHANGED << backendVars, allocVars, webVars, listVars >>

\* cancelChunkedUpload settles either way (a failure is only logged) and the
\* item is removed from the list
CancelReturns ==
    /\ cancelState \in { "ok", "failed" }
    /\ cancelState' = "done"
    /\ uploads' = removeItem(uploads, LocalId)
    /\ UNCHANGED << clientVars, net, response, successMessage, completeCalls,
                    cancelId >>
    /\ UNCHANGED serverVars
    /\ UNCHANGED << backendVars, allocVars, webVars, listVars >>

\* ------------------------------------------------------------ the backend
\* initiate: a disk qualifies and an Active session is created with
\* total_chunks = ceil(total_size / chunk_size)
ServerInitiate ==
    /\ pc = "initiate"
    /\ net = "toServer"
    /\ session' = [ id |-> ServerId, status |-> "Active",
                    total_size |-> fileSize, chunk_size |-> chunkSize,
                    total_chunks |-> CeilDiv(fileSize, chunkSize),
                    received |-> {} ]
    /\ response' = [ upload_id |-> ServerId,
                     total_chunks |-> CeilDiv(fileSize, chunkSize),
                     uploaded |-> FALSE, upload_completed |-> FALSE ]
    /\ net' = "ok"
    /\ UNCHANGED << clientVars, componentVars, cancelVars, storedFiles >>
    /\ UNCHANGED << backendVars, allocVars, webVars, listVars >>

\* initiate: NoSpaceAvailable or DiskInaccessible, no session is created
ServerInitiateFails ==
    /\ pc = "initiate"
    /\ net = "toServer"
    /\ net' = "rejected"
    /\ UNCHANGED << clientVars, componentVars, cancelVars, serverVars, response >>
    /\ UNCHANGED << backendVars, allocVars, webVars, listVars >>

\* upload_chunk: ChunkReceiver.receive on the chunk in flight
ServerReceive ==
    /\ pc = "chunk"
    /\ net = "toServer"
    /\ IF ChunkAccepted(session, upload_id, chunkNumber, currentChunkSize(chunkNumber))
       THEN /\ session' = [ session EXCEPT !.received = @ \cup { chunkNumber } ]
            /\ response' = [ response EXCEPT !.uploaded = TRUE,
                                             !.upload_completed = FALSE ]
            /\ net' = "ok"
       ELSE /\ session' = session
            /\ response' = response
            /\ net' = "rejected"
    /\ UNCHANGED << clientVars, componentVars, cancelVars, storedFiles >>
    /\ UNCHANGED << backendVars, allocVars, webVars, listVars >>

\* upload_chunk: the chunk is valid but its bytes are not durably recorded;
\* received_mask is left alone and the response says uploaded: false
ServerReceiveNotRecorded ==
    /\ pc = "chunk"
    /\ net = "toServer"
    /\ ChunkAccepted(session, upload_id, chunkNumber, currentChunkSize(chunkNumber))
    /\ response' = [ response EXCEPT !.uploaded = FALSE,
                                     !.upload_completed = FALSE ]
    /\ net' = "ok"
    /\ UNCHANGED << clientVars, componentVars, cancelVars, serverVars >>
    /\ UNCHANGED << backendVars, allocVars, webVars, listVars >>

\* upload_chunk: the chunk is the last one missing and the backend
\* finalizes the upload at once; the response says upload_completed: true
\* and carries the file's info
ServerReceiveFinalizes ==
    /\ pc = "chunk"
    /\ net = "toServer"
    /\ ChunkAccepted(session, upload_id, chunkNumber, currentChunkSize(chunkNumber))
    /\ session.received \cup { chunkNumber } = 1 .. session.total_chunks
    /\ session' = [ session EXCEPT !.received = @ \cup { chunkNumber },
                                   !.status = "Completed" ]
    /\ storedFiles' = storedFiles + 1
    /\ response' = [ response EXCEPT !.uploaded = TRUE, !.upload_completed = TRUE ]
    /\ net' = "ok"
    /\ UNCHANGED << clientVars, componentVars, cancelVars >>
    /\ UNCHANGED << backendVars, allocVars, webVars, listVars >>

\* complete_upload: FinalizationPipeline.complete
ServerComplete ==
    /\ pc = "complete"
    /\ net = "toServer"
    /\ IF CompleteAccepted(session, upload_id)
       THEN /\ session' = [ session EXCEPT !.status = "Completed" ]
            /\ storedFiles' = storedFiles + 1
            /\ net' = "ok"
       ELSE /\ UNCHANGED serverVars
            /\ net' = "rejected"
    /\ UNCHANGED << clientVars, componentVars, cancelVars, response >>
    /\ UNCHANGED << backendVars, allocVars, webVars, listVars >>

\* cancel_upload: an Active session of that id becomes Cancelled; any other
\* id, or a session that left Active, is refused
ServerCancel ==
    /\ cancelState = "toServer"
    /\ IF session.id = cancelId /\ session.status = "Active"
       THEN /\ session' = [ session EXCEPT !.status = "Cancelled" ]
            /\ cancelState' = "ok"
       ELSE /\ session' = session
            /\ cancelState' = "failed"
    /\ UNCHANGED << clientVars, componentVars, net, response, cancelId, storedFiles >>
    /\ UNCHANGED << backendVars, allocVars, webVars, listVars >>

\* the backend does not accept the request's bearer token: 401
ServerUnauthorized ==
    /\ pc \in { "initiate", "chunk", "complete" }
    /\ net = "toServer"
    /\ net' = "unauthorized"
    /\ UNCHANGED << clientVars, componentVars, cancelVars, serverVars, response >>
    /\ UNCHANGED << backendVars, allocVars, webVars, listVars >>

\* the janitor's sweep finds the session Active and older than its threshold
JanitorExpires ==
    /\ session.status = "Active"
    /\ session' = [ session EXCEPT !.status = "Expired" ]
    /\ UNCHANGED << clientVars, componentVars, cancelVars, net, response, storedFiles >>
    /\ UNCHANGED << backendVars, allocVars, webVars, listVars >>

\* ------------------------------------------------------------ the network
\* the orchestrator's request or its response is lost: the await rejects
\* with a network error, whether or not the backend handled the request
NetworkError ==
    /\ net \in { "toServer", "ok" }
    /\ net' = "netErr"
    /\ UNCHANGED << clientVars, componentVars, cancelVars, serverVars, response >>
    /\ UNCHANGED << backendVars, allocVars, webVars, listVars >>

\* the same for the cancel request
CancelNetworkError ==
    /\ cancelState \in { "toServer", "ok" }
    /\ cancelState' = "failed"
    /\ UNCHANGED << clientVars, componentVars, net, response, cancelId, serverVars >>
    /\ UNCHANGED << backendVars, allocVars, webVars, listVars >>

\* ------------------------------------------- UploadSessionStore (spec 3, 4.1)
\* The backend as the specification describes it, driven by any caller of
\* its interface.  The bytes of a file are numbered: the byte at offset k of
\* the source is the number k + 1, so a chunk's payload tells where it belongs.
MaxTotalSize == 3
MaxPieceSize == 2
MaxTime == 2
ServerClock == 1

SessionIds == { "u1", "u2" }

\* a session of the store (section 3) with its temp storage, the artifact a
\* finalization is staging, the lock a finalization holds, and a history
\* field: the error of its latest failed complete_upload
UnusedSession ==
    [ id |-> NoId, status |-> "None", total_size |-> 0, chunk_size |-> 0,
      total_chunks |-> 0, received |-> {}, updated_at |-> 0,
      temp |-> << >>, staged |-> << >>, finalizing |-> FALSE, setback |-> "" ]

\* the errors of a finalization past its preconditions
FinalizationErrors == { "SizeMismatch", "DiskError" }

NoSweep == [ active |-> FALSE, threshold |-> 0, listed |-> {}, pending |-> {} ]

Step(op, id, index, size, result) ==
    [ op |-> op, id |-> id, index |-> index, size |-> size, result |-> result ]

NoStep == Step("none", NoId, 0, 0, "")

\* the payload a client cuts for chunk index of a file, len bytes long
Payload(s, index, len) == [ k \in 1 .. len |-> (index - 1) * s.chunk_size + k ]

\* the bytes held by temp storage
TempBytes(temp) == SumOver(DOMAIN temp, [ k \in DOMAIN temp |-> Len(temp[k].bytes) ])

\* temp storage is addressed by (session, chunk index): a write to an index
\* already there replaces its bytes, last writer wins
StoreChunk(temp, index, bytes) ==
    IF \E k \in DOMAIN temp : temp[k].index = index
    THEN [ k \in DOMAIN temp |->
             IF temp[k].index = index THEN [ temp[k] EXCEPT !.bytes = bytes ]
             ELSE temp[k] ]
    ELSE Append(temp, [ index |-> index, bytes |-> bytes ])

\* a receiver that does not look at the session's status
ReceiveResultAnyStatus(s, index, len) ==
    IF s.status = "None" THEN "SessionNotFound"
    ELSE IF ~ (1 <= index /\ index <= s.total_chunks) THEN "IndexOutOfRange"
    ELSE IF len # ExpectedSize(s, index) THEN "SizeMismatch"
    ELSE "Accepted"

\* a receiver that does not look at the payload's length
ReceiveResultAnySize(s, index, len) ==
    IF s.status = "None" THEN "SessionNotFound"
    ELSE IF s.status # "Active" THEN "SessionInactive"
    ELSE IF ~ (1 <= index /\ index <= s.total_chunks) THEN "IndexOutOfRange"
    ELSE "Accepted"

\* a finalization that does not look at the received set
CompleteResultAnyReceived(s) ==
    IF s.status = "None" THEN "SessionNotFound"
    ELSE IF s.status # "Active" THEN "SessionInactive"
    ELSE "Ready"

\* section 4.3: the outcome of ChunkReceiver.receive, validated in order
ReceiveResult(s, index, len) ==
    IF s.status = "None" THEN "SessionNotFound"
    ELSE IF s.status # "Active" THEN "SessionInactive"
    ELSE IF ~ (1 <= index /\ index <= s.total_chunks) THEN "IndexOutOfRange"
    ELSE IF len # ExpectedSize(s, index) THEN "SizeMismatch"
    ELSE "Accepted"

\* section 4.4: the outcome of the preconditions of complete
CompleteResult(s) ==
    IF s.status = "None" THEN "SessionNotFound"
    ELSE IF s.status # "Active" THEN "SessionInactive"
    ELSE IF s.received # 1 .. s.total_chunks THEN "IncompleteUpload"
    ELSE "Ready"

\* the chunks of temp storage joined in the order they arrived
RECURSIVE AssembleAsArrived(_)
AssembleAsArrived(temp) ==
    IF temp = << >> THEN << >>
    ELSE temp[1].bytes \o AssembleAsArrived(Tail(temp))

\* the bytes of chunk index in temp storage
ChunkBytes(temp, index) ==
    LET at == { k \in DOMAIN temp : temp[k].index = index }
    IN  IF at = {} THEN << >> ELSE temp[CHOOSE k \in at : TRUE].bytes

RECURSIVE AssembleUpTo(_, _)
AssembleUpTo(temp, n) ==
    IF n = 0 THEN << >>
    ELSE AssembleUpTo(temp, n - 1) \o ChunkBytes(temp, n)

\* section 4.4: chunks are concatenated in index order
Assemble(temp) == AssembleUpTo(temp, Len(temp))

\* section 4.5: a session the sweep reclaims
SweepEligible(s, threshold) ==
    /\ s.status = "Active"
    /\ now - s.updated_at > threshold

\* ------------------------------------------------------- DiskAllocator
MaxDisks == 2

\* choose_disk's answer when no disk qualifies; a chosen disk is answered
\* by its place in the priority order
NoSpaceAvailable == 0

\* no choose_disk call has been answered
NoChoice == [ required |-> 0, result |-> NoSpaceAvailable ]

\* a DiskRecord as read at allocation time
DiskStates == [ available_space : 0 .. MaxTotalSize, is_accessible : BOOLEAN ]

\* the configured disks, in priority order
DiskConfigs == UNION { [ 1 .. n -> DiskStates ] : n \in 1 .. MaxDisks }

\* an allocator that does not look at is_accessible
RECURSIVE ChooseFromAnyAccess(_, _, _)
ChooseFromAnyAccess(ds, required, k) ==
    IF k > Len(ds) THEN NoSpaceAvailable
    ELSE IF ds[k].available_space >= required THEN k
    ELSE ChooseFromAnyAccess(ds, required, k + 1)

\* section 4.1: the disks are tried in order from place k on
RECURSIVE ChooseFrom(_, _, _)
ChooseFrom(ds, required, k) ==
    IF k > Len(ds) THEN NoSpaceAvailable
    ELSE IF ds[k].available_space >= required /\ ds[k].is_accessible THEN k
    ELSE ChooseFrom(ds, required, k + 1)

\* ------------------------------------------------------------------ Next
BackendIdle ==
    /\ sessions = << >>
    /\ files = {}
    /\ now = 0
    /\ sweep = NoSweep
    /\ last = NoStep

AllocIdle ==
    /\ disks = << >>
    /\ chosen = NoChoice

Init == UploadInit /\ BackendIdle /\ AllocIdle /\ DashboardOpen

Next ==
    \/ \E size \in 1 .. MaxFileSize, cs \in 1 .. MaxChunkSize : uploadFile(size, cs)
    \/ InitiateReturns
    \/ \E ld \in 1 .. MaxChunkSize : ChunkProgress(ld)
    \/ ChunkReturns
    \/ CompleteReturns
    \/ RequestFails
    \/ successTimeout
    \/ cancelUpload
    \/ CancelReturns
    \/ ServerInitiate
    \/ ServerInitiateFails
    \/ ServerReceive
    \/ ServerReceiveNotRecorded
    \/ ServerReceiveFinalizes
    \/ JanitorExpires
    \/ ServerUnauthorized
    \/ ServerComplete
    \/ ServerCancel
    \/ NetworkError
    \/ CancelNetworkError

Spec == Init /\ [][Next]_vars

\* ----------------------------------------------------- reading the log
IsSend(e, kind) == e.op = "send" /\ e.kind = kind

IsOk(e, kind) == e.op = "ok" /\ e.kind = kind

\* the chunks whose upload_chunk request has resolved
AckedChunks == { log[k].n : k \in { j \in DOMAIN log : IsOk(log[j], "chunk") } }

\* the bytes of those chunks, by the size rule of section 3
AckedBytes ==
    SumOver(AckedChunks,
            [ n \in AckedChunks |->
                IF n < CeilDiv(fileSize, chunkSize) THEN chunkSize
                ELSE fileSize - chunkSize * (CeilDiv(fileSize, chunkSize) - 1) ])

\* this step issues a new upload_chunk or complete_upload request
IssuesRequest ==
    /\ log' # log
    /\ Last(log').op = "send"
    /\ Last(log').kind \in { "chunk", "complete" }

CancelRequested == cancelState # "none"

\* --------------------------------------------------------------- claims

\* C1: after cancelUpload has been invoked for the upload, the orchestrator
\* starts no new upload_chunk request and no complete_upload request.
C1_NoRequestAfterCancel ==
    [][ CancelRequested => ~ IssuesRequest ]_vars

\* C2: when the upload_chunk request of chunk i fails transiently (a network
\* error), the orchestrator re-sends chunk i in the same session: the next
\* thing it does is send chunk i again under the same upload_id.
C2_RetriesFailedChunk ==
    [][ (pc = "chunk" /\ net = "netErr" /\ log' # log)
           => /\ pc' = "chunk"
              /\ upload_id' = upload_id
              /\ chunkNumber' = chunkNumber
              /\ Last(log') = SendEntry("chunk", chunkNumber) ]_vars

\* C3: over all onProgress calls of a run, uploadedSize and progress never
\* decrease.
C3_ProgressMonotonic ==
    \A i, j \in DOMAIN events :
        i < j => /\ events[i].uploadedSize <= events[j].uploadedSize
                 /\ events[i].progress <= events[j].progress

\* C4: an uploadedSize reported by onProgress is at most the bytes of the
\* chunks acknowledged when it is reported.
C4_ProgressOnlyAcked ==
    [][ events' # events
           => Last(events').uploadedSize <= Hundred * AckedBytes' ]_vars

\* C5: a progress of 100 is reported only by the 'completed' event, after
\* complete_upload has resolved.
C5_HundredOnlyAfterComplete ==
    \A i \in DOMAIN events :
        events[i].progress = Hundred * fileSize
            => /\ events[i].status = "completed"
               /\ \E k \in DOMAIN log : IsOk(log[k], "complete")

\* C6: when the upload fails after some chunks were acknowledged, the 'error'
\* event and the item shown carry a reason and the uploadedSize and progress
\* of the acknowledged chunks.
C6_ErrorKeepsPartialProgress ==
    /\ \A i \in DOMAIN events :
          (events[i].status = "error" /\ AckedChunks # {})
              => /\ events[i].error # ""
                 /\ events[i].uploadedSize = Hundred * AckedBytes
                 /\ events[i].progress = Hundred * AckedBytes
    /\ \A i \in DOMAIN uploads :
          (uploads[i].progress.status = "error" /\ AckedChunks # {})
              => /\ uploads[i].progress.error # ""
                 /\ uploads[i].progress.uploadedSize = Hundred * AckedBytes
                 /\ uploads[i].progress.progress = Hundred * AckedBytes

\* C7: a run that ends after cancelUpload was invoked ends with a 'cancelled'
\* event, neither 'error' nor 'completed'.
C7_CancelledTerminalState ==
    (CancelRequested /\ pc \in { "done", "failed" })
        => /\ events # << >>
           /\ Last(events).status = "cancelled"

\* C8: once cancelUpload has been invoked, no progress event is delivered,
\* onUploadComplete is not called and no success message is shown.
C8_ResultsDiscardedAfterCancel ==
    [][ CancelRequested
           => /\ events' = events
              /\ completeCalls' = completeCalls
              /\ (successMessage' => successMessage) ]_vars

\* C9: no upload_chunk request is issued before initiate has resolved,
\* complete_upload is issued at most once, and only after every chunk of
\* 1 .. total_chunks has been acknowledged, that is, its upload_chunk
\* request has resolved (what the response says of the chunk is C11's).
C9_RequestOrder ==
    \A k \in DOMAIN log :
        /\ IsSend(log[k], "chunk")
              => \E j \in 1 .. k - 1 : IsOk(log[j], "initiate")
        /\ IsSend(log[k], "complete")
              => /\ \A n \in 1 .. response.total_chunks :
                       \E j \in 1 .. k - 1 : IsOk(log[j], "chunk") /\ log[j].n = n
                 /\ \A j \in DOMAIN log : IsSend(log[j], "complete") => j = k

\* a file of several chunks whose complete_upload has been sent
C9_Witness ==
    /\ pc # "idle"
    /\ CeilDiv(fileSize, chunkSize) >= 2
    /\ \E k \in DOMAIN log : IsSend(log[k], "complete")

\* C10: the pieces cut are contiguous and disjoint, piece i has chunk_size
\* bytes for i < total_chunks and size - chunk_size * (total_chunks - 1) for
\* the last one, and the sizes of all pieces add up to the file size.
C10_PiecesPartitionFile ==
    LET tc == CeilDiv(fileSize, chunkSize)
        sends == { k \in DOMAIN log : IsSend(log[k], "chunk") }
    IN  /\ \A k \in sends :
              /\ log[k].n \in 1 .. tc
              /\ log[k].start = (log[k].n - 1) * chunkSize
              /\ log[k].end - log[k].start =
                    IF log[k].n < tc THEN chunkSize
                    ELSE fileSize - chunkSize * (tc - 1)
              /\ log[k].n = 1 => log[k].start = 0
              /\ log[k].n > 1 =>
                    \E j \in sends : /\ j < k
                                     /\ log[j].n = log[k].n - 1
                                     /\ log[j].end = log[k].start
              /\ \A j \in sends : j # k => log[j].n # log[k].n
        /\ (\E k \in DOMAIN log : IsSend(log[k], "complete"))
              => /\ { log[k].n : k \in sends } = 1 .. tc
                 /\ SumOver(sends, [ k \in sends |-> log[k].end - log[k].start ])
                       = fileSize
                 /\ \E k \in sends : log[k].n = tc /\ log[k].end = fileSize

\* all pieces of a file whose size is no multiple of the chunk size were sent
C10_Witness ==
    /\ pc # "idle"
    /\ CeilDiv(fileSize, chunkSize) >= 2
    /\ fileSize % chunkSize # 0
    /\ \E k \in DOMAIN log : IsSend(log[k], "complete")

\* C11: the client adds a chunk's bytes to uploadedSize and moves on only
\* when the upload_chunk response reports uploaded = true.
C11_CountsOnlyUploadedChunks ==
    [][ (pc = "chunk" /\ uploadedSize' # uploadedSize) => response.uploaded ]_vars

\* the backend refused initiate (NoSpaceAvailable, DiskInaccessible)
InitiateRejected ==
    \E k \in DOMAIN log : log[k].op = "rejected" /\ log[k].kind = "initiate"

\* C12: when initiate is refused, no session exists on the backend, the
\* orchestrator issues no upload_chunk and no complete_upload request, and
\* the run ends in the 'error' state.
C12_InitiateFailure ==
    /\ (pc = "initiate" /\ net = "rejected") => session = NoSession
    /\ InitiateRejected
          => /\ session = NoSession
             /\ storedFiles = 0
             /\ \A k \in DOMAIN log :
                   ~ IsSend(log[k], "chunk") /\ ~ IsSend(log[k], "complete")
             /\ pc = "failed"
             /\ events # << >>
             /\ Last(events).status = "error"
             /\ \A i \in findUpload(uploads, LocalId) :
                   uploads[i].progress.status = "error"

\* the run has ended on a refused initiate
C12_Witness == InitiateRejected /\ pc = "failed"

\* the places of the log where an upload_chunk request is sent
ChunkSends == { k \in DOMAIN log : IsSend(log[k], "chunk") }

\* the place k of the log holds the reply to the upload_chunk request of n
IsChunkReply(k, n) ==
    /\ log[k].kind = "chunk"
    /\ log[k].op \in { "ok", "rejected", "netErr", "unauthorized" }
    /\ log[k].n = n

\* C20: the chunks of a file are sent one at a time in the order
\* 1, 2, .., total_chunks: a request is sent only when every earlier one has
\* been answered, and the request of chunk n + 1 only after that of chunk n
\* has succeeded.
C20_SequentialAscending ==
    \A k \in ChunkSends :
        /\ log[k].n = Cardinality({ j \in ChunkSends : j <= k })
        /\ log[k].n <= response.total_chunks
        /\ log[k].n > 1 =>
              \E j \in 1 .. k - 1 : IsOk(log[j], "chunk") /\ log[j].n = log[k].n - 1
        /\ \A j \in ChunkSends :
              j < k => \E r \in j + 1 .. k - 1 : IsChunkReply(r, log[j].n)

\* the third chunk of a file has been sent
C20_Witness == \E k \in ChunkSends : log[k].n = 3

\* ---------------------------------------------------- the backend at work
\* Each operation holds the session's lock for its whole step (spec 5); a
\* finalization holds it from its first step to its last.

\* initiate: a disk qualifies, the session is created Active
Initiate(id, size, cs) ==
    /\ sessions[id].status = "None"
    /\ sessions' = [ sessions EXCEPT ![id] =
          [ UnusedSession EXCEPT !.id = id, !.status = "Active",
                                 !.total_size = size, !.chunk_size = cs,
                                 !.total_chunks = CeilDiv(size, cs),
                                 !.updated_at = now ] ]
    /\ last' = Step("initiate", id, 0, size, "Created")
    /\ UNCHANGED << files, now, sweep >>
    /\ UNCHANGED << uploadVars, allocVars, webVars, listVars >>

\* initiate: no disk qualifies, nothing is created
InitiateRefused(size) ==
    /\ last' = Step("initiate", NoId, 0, size, "NoSpaceAvailable")
    /\ UNCHANGED << sessions, files, now, sweep >>
    /\ UNCHANGED << uploadVars, allocVars, webVars, listVars >>

\* upload_chunk: ChunkReceiver.receive of a payload of len bytes for index
Receive(id, index, len) ==
    /\ ~ sessions[id].finalizing
    /\ LET s == sessions[id]
           result == ReceiveResult(s, index, len)
       IN  /\ last' = Step("chunk", id, index, len, result)
           /\ sessions' =
                 IF result = "Accepted"
                 THEN [ sessions EXCEPT ![id] =
                          [ s EXCEPT !.temp = StoreChunk(s.temp, index, Payload(s, index, len)),
                                     !.received = @ \cup { index },
                                     !.updated_at = now ] ]
                 ELSE sessions
    /\ UNCHANGED << files, now, sweep >>
    /\ UNCHANGED << uploadVars, allocVars, webVars, listVars >>

\* complete_upload whose preconditions fail: refused, nothing changes
CompleteRefused(id) ==
    /\ ~ sessions[id].finalizing
    /\ CompleteResult(sessions[id]) # "Ready"
    /\ last' = Step("complete", id, 0, 0, CompleteResult(sessions[id]))
    /\ sessions' =
          IF CompleteResult(sessions[id]) = "IncompleteUpload"
          THEN [ sessions EXCEPT ![id].setback = "IncompleteUpload" ]
          ELSE sessions
    /\ UNCHANGED << files, now, sweep >>
    /\ UNCHANGED << uploadVars, allocVars, webVars, listVars >>

\* complete_upload, first step: the chunks are joined under a staging name;
\* a write error leaves only wrote bytes of them
CompleteBegin(id, wrote) ==
    /\ ~ sessions[id].finalizing
    /\ CompleteResult(sessions[id]) = "Ready"
    /\ wrote <= sessions[id].total_size
    /\ sessions' = [ sessions EXCEPT ![id] =
          [ @ EXCEPT !.finalizing = TRUE,
                     !.staged = SubSeq(Assemble(sessions[id].temp), 1, wrote) ] ]
    /\ last' = Step("assemble", id, 0, wrote, "Staged")
    /\ UNCHANGED << files, now, sweep >>
    /\ UNCHANGED << uploadVars, allocVars, webVars, listVars >>

\* complete_upload, last step: the staged artifact has total_size bytes, it
\* is moved to its final name as the StoredFile and the session is
\* Completed; its temp storage is left to be removed
CompleteCommit(id) ==
    /\ sessions[id].finalizing
    /\ Len(sessions[id].staged) = sessions[id].total_size
    /\ files' = files \cup { [ id |-> id, size |-> Len(sessions[id].staged),
                               content |-> sessions[id].staged ] }
    /\ sessions' = [ sessions EXCEPT ![id] =
          [ @ EXCEPT !.status = "Completed", !.finalizing = FALSE,
                     !.staged = << >> ] ]
    /\ last' = Step("complete", id, 0, 0, "Completed")
    /\ UNCHANGED << now, sweep >>
    /\ UNCHANGED << uploadVars, allocVars, webVars, listVars >>

\* the scheduled removal of a Completed session's temp storage
RemoveTemp(id) ==
    /\ sessions[id].status = "Completed"
    /\ sessions[id].temp # << >>
    /\ sessions' = [ sessions EXCEPT ![id].temp = << >> ]
    /\ last' = Step("remove", id, 0, TempBytes(sessions[id].temp), "Removed")
    /\ UNCHANGED << files, now, sweep >>
    /\ UNCHANGED << uploadVars, allocVars, webVars, listVars >>

\* a failed finalization that leaves what it had staged among the files
CompleteFailsExposed(id, error) ==
    /\ sessions[id].finalizing
    /\ error = "SizeMismatch" => Len(sessions[id].staged) # sessions[id].total_size
    /\ sessions' = [ sessions EXCEPT ![id] =
          [ @ EXCEPT !.finalizing = FALSE, !.staged = << >>, !.setback = error ] ]
    /\ files' = files \cup { [ id |-> id, size |-> Len(sessions[id].staged),
                               content |-> sessions[id].staged ] }
    /\ last' = Step("complete", id, 0, 0, error)
    /\ UNCHANGED << now, sweep >>
    /\ UNCHANGED << uploadVars, allocVars, webVars, listVars >>

\* complete_upload fails on the way: a disk error while joining the chunks
\* or while exposing the artifact (DiskError), or a staged length that is
\* not total_size (SizeMismatch); the staged artifact is discarded and the
\* session stays Active
CompleteFails(id, error) ==
    /\ sessions[id].finalizing
    /\ error = "SizeMismatch" => Len(sessions[id].staged) # sessions[id].total_size
    /\ sessions' = [ sessions EXCEPT ![id] =
          [ @ EXCEPT !.finalizing = FALSE, !.staged = << >>, !.setback = error ] ]
    /\ last' = Step("complete", id, 0, 0, error)
    /\ UNCHANGED << files, now, sweep >>
    /\ UNCHANGED << uploadVars, allocVars, webVars, listVars >>

\* cancel_upload: an Active session becomes Cancelled and its temp storage
\* is freed; any other session is refused
CancelSession(id) ==
    /\ ~ sessions[id].finalizing
    /\ IF sessions[id].status = "Active"
       THEN /\ sessions' = [ sessions EXCEPT ![id] =
                  [ @ EXCEPT !.status = "Cancelled", !.temp = << >> ] ]
            /\ last' = Step("cancel", id, 0, TempBytes(sessions[id].temp), "Cancelled")
       ELSE /\ sessions' = sessions
            /\ last' = Step("cancel", id, 0, 0,
                            IF sessions[id].status = "None" THEN "SessionNotFound"
                            ELSE "InvalidTransition")
    /\ UNCHANGED << files, now, sweep >>
    /\ UNCHANGED << uploadVars, allocVars, webVars, listVars >>

\* time passes
Tick ==
    /\ now < MaxTime
    /\ now' = now + 1
    /\ last' = Step("tick", NoId, 0, 0, "")
    /\ UNCHANGED << sessions, files, sweep >>
    /\ UNCHANGED << uploadVars, allocVars, webVars, listVars >>

\* sweep(age_threshold): list_active(older_than)
SweepStart(threshold) ==
    /\ ~ sweep.active
    /\ LET old == { id \in DOMAIN sessions : SweepEligible(sessions[id], threshold) }
       IN  sweep' = [ active |-> TRUE, threshold |-> threshold,
                      listed |-> old, pending |-> old ]
    /\ last' = Step("sweep", NoId, 0, threshold, "Listed")
    /\ UNCHANGED << sessions, files, now >>
    /\ UNCHANGED << uploadVars, allocVars, webVars, listVars >>

\* a sweep that reclaims every session it listed without looking again
SweepOneUnchecked(id) ==
    /\ sweep.active
    /\ id \in sweep.pending
    /\ sweep' = [ sweep EXCEPT !.pending = @ \ { id } ]
    /\ sessions' = [ sessions EXCEPT ![id] =
          [ @ EXCEPT !.status = "Expired", !.temp = << >> ] ]
    /\ last' = Step("sweep", id, 0, TempBytes(sessions[id].temp), "Expired")
    /\ UNCHANGED << files, now >>
    /\ UNCHANGED << uploadVars, allocVars, webVars, listVars >>

\* the sweep examines one listed session under its lock: still eligible, it
\* is reclaimed (temp deleted, Expired); otherwise it is left alone
SweepOne(id) ==
    /\ sweep.active
    /\ id \in sweep.pending
    /\ ~ sessions[id].finalizing
    /\ sweep' = [ sweep EXCEPT !.pending = @ \ { id } ]
    /\ IF SweepEligible(sessions[id], sweep.threshold)
       THEN /\ sessions' = [ sessions EXCEPT ![id] =
                  [ @ EXCEPT !.status = "Expired", !.temp = << >> ] ]
            /\ last' = Step("sweep", id, 0, TempBytes(sessions[id].temp), "Expired")
       ELSE /\ sessions' = sessions
            /\ last' = Step("sweep", id, 0, 0, "Skipped")
    /\ UNCHANGED << files, now >>
    /\ UNCHANGED << uploadVars, allocVars, webVars, listVars >>

\* the sweep has examined every listed session
SweepEnd ==
    /\ sweep.active
    /\ sweep.pending = {}
    /\ sweep' = NoSweep
    /\ last' = Step("sweep", NoId, 0, 0, "Done")
    /\ UNCHANGED << sessions, files, now >>
    /\ UNCHANGED << uploadVars, allocVars, webVars, listVars >>

\* one session, every call of the interface with every size
ServerInit ==
    /\ UploadInit
    /\ WebIdle
    /\ AllocIdle
    /\ sessions = [ id \in { "u1" } |-> UnusedSession ]
    /\ files = {}
    /\ now = 0
    /\ sweep = NoSweep
    /\ last = NoStep

ServerNext ==
    \/ \E id \in DOMAIN sessions, size \in 1 .. MaxTotalSize, cs \in 1 .. MaxPieceSize :
          Initiate(id, size, cs)
    \/ \E size \in 1 .. MaxTotalSize : InitiateRefused(size)
    \/ \E id \in DOMAIN sessions :
          \E index \in 0 .. sessions[id].total_chunks + 1, len \in 1 .. MaxPieceSize + 1 :
             Receive(id, index, len)
    \/ \E id \in DOMAIN sessions : CompleteRefused(id)
    \/ \E id \in DOMAIN sessions, wrote \in 0 .. MaxTotalSize : CompleteBegin(id, wrote)
    \/ \E id \in DOMAIN sessions : CompleteCommit(id)
    \/ \E id \in DOMAIN sessions, error \in FinalizationErrors : CompleteFails(id, error)
    \/ \E id \in DOMAIN sessions : RemoveTemp(id)
    \/ \E id \in DOMAIN sessions : CancelSession(id)
    \/ now < ServerClock /\ Tick
    \/ SweepStart(0)
    \/ \E id \in DOMAIN sessions : SweepOne(id)
    \/ SweepEnd

ServerSpec == ServerInit /\ [][ServerNext]_vars

\* two sessions of well-behaved clients, the clock and the janitor
JanitorInit ==
    /\ UploadInit
    /\ WebIdle
    /\ AllocIdle
    /\ sessions = [ id \in SessionIds |-> UnusedSession ]
    /\ files = {}
    /\ now = 0
    /\ sweep = NoSweep
    /\ last = NoStep

JanitorNext ==
    \/ \E id \in DOMAIN sessions : Initiate(id, 1, 1)
    \/ \E id \in DOMAIN sessions :
          sessions[id].status = "Active" /\ Receive(id, 1, 1)
    \/ \E id \in DOMAIN sessions : CompleteBegin(id, sessions[id].total_size)
    \/ \E id \in DOMAIN sessions : CompleteCommit(id)
    \/ \E id \in DOMAIN sessions :
          sessions[id].status = "Active" /\ CancelSession(id)
    \/ Tick
    \/ \E threshold \in 0 .. MaxTime : SweepStart(threshold)
    \/ \E id \in DOMAIN sessions : SweepOne(id)
    \/ SweepEnd

JanitorSpec == JanitorInit /\ [][JanitorNext]_vars

\* ------------------------------------------------ claims on the backend
Terminal == { "Completed", "Cancelled", "Expired" }

\* the rank of a status in the lifecycle of section 3
StatusRank(status) ==
    IF status = "None" THEN 0 ELSE IF status = "Active" THEN 1 ELSE 2

\* C13: the status of a session only moves forward (unknown, Active, then
\* one of Completed, Cancelled, Expired), and a session in a terminal status
\* keeps its status and its received set through every step of upload_chunk,
\* complete_upload, cancel_upload and the janitor's sweeps.
C13_StatusMonotonic ==
    [][ \A id \in DOMAIN sessions :
          /\ StatusRank(sessions'[id].status) >= StatusRank(sessions[id].status)
          /\ sessions[id].status \in Terminal =>
                /\ sessions'[id].status = sessions[id].status
                /\ sessions'[id].received = sessions[id].received ]_vars

\* an Expired session has just refused a chunk
C13_Witness ==
    \E id \in DOMAIN sessions :
       /\ sessions[id].status = "Expired"
       /\ last = Step("chunk", id, 1, ExpectedSize(sessions[id], 1), "SessionInactive")

\* C14: a chunk an Active session has already received, sent again, is
\* accepted when its size is the expected one and the received set (and so
\* uploaded_chunks) does not change; with any other size it is rejected with
\* SizeMismatch and the session does not change.
C14_ResendIdempotent ==
    [][ \A id \in DOMAIN sessions :
          ( /\ last'.op = "chunk"
            /\ last'.id = id
            /\ sessions[id].status = "Active"
            /\ last'.index \in sessions[id].received )
          => IF last'.size = ExpectedSize(sessions[id], last'.index)
             THEN /\ last'.result = "Accepted"
                  /\ sessions'[id].received = sessions[id].received
                  /\ Cardinality(sessions'[id].received) = Cardinality(sessions[id].received)
                  /\ sessions'[id].status = "Active"
             ELSE /\ last'.result = "SizeMismatch"
                  /\ sessions'[id] = sessions[id] ]_vars

\* chunk 2 arrived before chunk 1 and has just been accepted again
C14_Witness ==
    \E id \in DOMAIN sessions :
       /\ Len(sessions[id].temp) = 2
       /\ sessions[id].temp[1].index = 2
       /\ last.op = "chunk" /\ last.id = id /\ last.index = 2
       /\ last.result = "Accepted"

\* C15: complete_upload on an Active session whose received set is not
\* complete fails with IncompleteUpload, creates no StoredFile and leaves
\* the session Active with the same received set and temp storage; every
\* missing chunk is then still accepted, and the session can be completed.
C15_IncompleteRefused ==
    [][ \A id \in DOMAIN sessions :
          ( /\ last'.op \in { "complete", "assemble" }
            /\ last'.id = id
            /\ sessions[id].status = "Active"
            /\ sessions[id].received # 1 .. sessions[id].total_chunks )
          => /\ last'.result = "IncompleteUpload"
             /\ files' = files
             /\ sessions'[id].status = "Active"
             /\ sessions'[id].received = sessions[id].received
             /\ sessions'[id].temp = sessions[id].temp
             /\ \A index \in (1 .. sessions[id].total_chunks) \ sessions[id].received :
                   ReceiveResult(sessions'[id], index,
                                 ExpectedSize(sessions[id], index)) = "Accepted" ]_vars

\* a session refused as incomplete has since been completed
C15_Witness ==
    \E id \in DOMAIN sessions :
       /\ sessions[id].setback = "IncompleteUpload"
       /\ sessions[id].status = "Completed"
       /\ \E f \in files : f.id = id

\* the file a client cuts its payloads from
SourceFile(size) == [ k \in 1 .. size |-> k ]

\* the indices of temp storage in the order their chunks first arrived
ArrivalOrder(temp) == [ k \in DOMAIN temp |-> temp[k].index ]

\* C18: whatever the order the chunks arrived in, the StoredFile of a
\* completed upload holds the chunks joined in index order, that is the
\* bytes of the source file, and its size is total_size.
C18_ContentInIndexOrder ==
    \A f \in files :
       /\ f.size = sessions[f.id].total_size
       /\ Len(f.content) = sessions[f.id].total_size
       /\ f.content = SourceFile(sessions[f.id].total_size)

\* chunk 3 arrived first, then chunk 1, then chunk 2, and the upload is
\* completed
C18_Witness ==
    \E f \in files :
       /\ sessions[f.id].status = "Completed"
       /\ ArrivalOrder(sessions[f.id].temp) = << 3, 1, 2 >>

\* C19: after a finalization that failed on the way (a disk error while
\* joining or exposing, or a staged length that is not total_size) the
\* session is Active with all its chunks, it has no StoredFile, and
\* complete_upload is accepted again; a session has a StoredFile only once
\* it is Completed.
C19_FailedFinalization ==
    \A id \in DOMAIN sessions :
       /\ sessions[id].status # "Completed" => ~ \E f \in files : f.id = id
       /\ ( last.op = "complete" /\ last.id = id /\ last.result \in FinalizationErrors )
          => /\ sessions[id].status = "Active"
             /\ ~ sessions[id].finalizing
             /\ sessions[id].received = 1 .. sessions[id].total_chunks
             /\ TempBytes(sessions[id].temp) = sessions[id].total_size
             /\ CompleteResult(sessions[id]) = "Ready"

\* a session whose finalization failed has since been completed
C19_Witness ==
    \E id \in DOMAIN sessions :
       /\ sessions[id].setback \in FinalizationErrors
       /\ sessions[id].status = "Completed"
       /\ \E f \in files : f.id = id /\ f.content = SourceFile(sessions[id].total_size)

\* a session is Active and its last activity is older than threshold
OlderThan(s, threshold) ==
    /\ s.status = "Active"
    /\ s.updated_at + threshold < now

\* C16: a sweep with threshold T lists the Active sessions whose updated_at
\* is older than T; a session is Expired only by the sweep examining it, and
\* exactly when it is then still Active and older than T and no
\* finalization holds it; a session the sweep does not expire is left as it
\* is, temp storage included, and no step of the sweep changes a Completed
\* or Cancelled session or the StoredFiles.
C16_SweepExpiresExactly ==
    [][ /\ ( ~ sweep.active /\ sweep'.active )
           => sweep'.listed = { id \in DOMAIN sessions :
                                   OlderThan(sessions[id], sweep'.threshold) }
        /\ last'.op = "sweep" => files' = files
        /\ \A id \in DOMAIN sessions :
              LET examined == sweep.active /\ id \in sweep.pending /\ id \notin sweep'.pending
                  expired == sessions[id].status # "Expired" /\ sessions'[id].status = "Expired"
              IN  /\ expired => examined
                  /\ examined =>
                        /\ ~ sessions[id].finalizing
                        /\ expired <=> OlderThan(sessions[id], sweep.threshold)
                        /\ expired => sessions'[id].temp = << >>
                        /\ ~ expired => sessions'[id] = sessions[id]
                  /\ ( last'.op = "sweep" /\ sessions[id].status \in { "Completed", "Cancelled" } )
                        => sessions'[id] = sessions[id] ]_vars

\* in one sweep that listed both sessions, one was expired and the other,
\* completed in the meantime, has just been examined and left with its
\* temp storage
C16_Witness ==
    /\ sweep.active
    /\ sweep.listed = SessionIds
    /\ \E id \in SessionIds, other \in SessionIds :
          /\ sessions[id].status = "Expired"
          /\ sessions[other].status = "Completed"
          /\ sessions[other].temp # << >>
          /\ last = Step("sweep", other, 0, 0, "Skipped")

\* ------------------------------------------------- the allocator at work
\* choose_disk(required_size), reading the disks as they are now
choose_disk(required) ==
    /\ chosen' = [ required |-> required, result |-> ChooseFrom(disks, required, 1) ]
    /\ UNCHANGED disks
    /\ UNCHANGED << uploadVars, backendVars, webVars, listVars >>

\* other sessions and external writes change a disk
DiskChanges(k, disk) ==
    /\ k \in DOMAIN disks
    /\ disks[k] # disk
    /\ disks' = [ disks EXCEPT ![k] = disk ]
    /\ UNCHANGED chosen
    /\ UNCHANGED << uploadVars, backendVars, webVars, listVars >>

AllocInit ==
    /\ UploadInit
    /\ WebIdle
    /\ BackendIdle
    /\ disks \in DiskConfigs
    /\ chosen = NoChoice

AllocNext ==
    \/ \E required \in 1 .. MaxTotalSize : choose_disk(required)
    \/ \E k \in 1 .. MaxDisks, disk \in DiskStates : DiskChanges(k, disk)

AllocSpec == AllocInit /\ [][AllocNext]_vars

\* C17: the answer of choose_disk(required_size) is the first disk of the
\* priority order that is accessible and has available_space >=
\* required_size, earlier disks that do not qualify being skipped, and it
\* is NoSpaceAvailable exactly when no disk qualifies.
C17_FirstQualifyingDisk ==
    [][ disks' = disks =>
          LET qualifying == { k \in DOMAIN disks :
                                 /\ disks[k].is_accessible
                                 /\ disks[k].available_space >= chosen'.required }
          IN  /\ chosen'.result = NoSpaceAvailable <=> qualifying = {}
              /\ chosen'.result # NoSpaceAvailable =>
                    /\ chosen'.result \in qualifying
                    /\ \A k \in qualifying : chosen'.result <= k ]_vars

\* the first disk is accessible but too small, the second is chosen
C17_Witness ==
    /\ Len(disks) >= 2
    /\ chosen.result = 2
    /\ disks[1].is_accessible
    /\ disks[1].available_space < chosen.required
    /\ disks[2].is_accessible
    /\ disks[2].available_space >= chosen.required

\* --------------------------------------------- claims on the component
\* C21: when cancelUpload is invoked for an item whose initiate has
\* returned, it sends a cancel_upload request, and that request is
\* addressed to the upload_id the server issued for the item's session,
\* never to the component's own item id or to an empty id.
C21_CancelAddressedToSession ==
    [][ ( cancelState = "none" /\ cancelState' # "none" /\ upload_id # NoId )
        => ( cancelState' = "toServer" /\ cancelId' = upload_id ) ]_vars

\* C22: when the backend finalized the upload with its last chunk and the
\* orchestrator received that response (upload_completed = true), the run,
\* if no request of it is lost on the network, ends 'completed' and
\* resolves, not 'error'.
C22_OpportunisticCompletion ==
    ( /\ pc \in { "done", "failed" }
      /\ response.upload_completed
      /\ session.status = "Completed"
      /\ \E k \in DOMAIN log : IsOk(log[k], "chunk") /\ log[k].n = total_chunks
      /\ \A k \in DOMAIN log : log[k].op # "netErr" )
    => ( pc = "done" /\ Last(events).status = "completed" )

\* the events that end a run
TerminalEvents == { k \in DOMAIN events : events[k].status \in { "completed", "error" } }

\* C24: a run of uploadFileChunked emits at most one terminal event
\* ('completed' or 'error') and no event after it; its promise has resolved
\* exactly when that event is 'completed' and has rejected exactly when it
\* is 'error'.
C24_OneTerminalEvent ==
    /\ Cardinality(TerminalEvents) <= 1
    /\ \A k \in TerminalEvents : k = Len(events)
    /\ pc = "done" <=> \E k \in TerminalEvents : events[k].status = "completed"
    /\ pc = "failed" <=> \E k \in TerminalEvents : events[k].status = "error"

\* a run has failed after it had reported progress
C24_Witness ==
    /\ pc = "failed"
    /\ Len(events) >= 2
    /\ events[1].status = "uploading"

\* the run has failed at an upload_chunk or complete_upload request
FailedAtChunkOrComplete ==
    /\ pc = "failed"
    /\ Last(log).kind \in { "chunk", "complete" }

\* no request is sent in this step, by the orchestrator or by cancelUpload
NoRequestSent ==
    /\ log' = log
    /\ cancelState = "none" => cancelState' = "none"

\* C25: once uploadFileChunked has failed at an upload_chunk or
\* complete_upload request, no further request is sent for the session (no
\* chunk, no complete_upload, no cancel_upload), and the session is
\* Active, with the chunks it has received, until the janitor expires it.
C25_FailureLeavesSessionActive ==
    [][ /\ ( pc # "failed" /\ pc' = "failed" ) => cancelVars' = cancelVars
        /\ FailedAtChunkOrComplete =>
          /\ NoRequestSent
          /\ session.status \in { "Active", "Expired" }
          /\ session' # session =>
                session' = [ session EXCEPT !.status = "Expired" ] ]_vars

\* C25 as amended: no further request is sent, and nothing but the janitor
\* or a cancel_upload sent before the failure changes the session: it is
\* Active with the chunks received so far until the janitor expires it,
\* unless the backend had already completed it or that cancel cancels it.
C25_FailureSendsNothingMore ==
    [][ /\ ( pc # "failed" /\ pc' = "failed" ) => cancelVars' = cancelVars
        /\ FailedAtChunkOrComplete =>
          /\ NoRequestSent
          /\ session.status = "Cancelled" => cancelState # "none"
          /\ session.status = "Completed" => storedFiles > 0
          /\ session' # session =>
                /\ session.status = "Active"
                /\ \/ session' = [ session EXCEPT !.status = "Expired" ]
                   \/ /\ cancelState = "toServer"
                      /\ session' = [ session EXCEPT !.status = "Cancelled" ] ]_vars

\* the run failed at a chunk, nobody cancelled, and the session has been
\* expired with the chunk it had received
C25_Witness ==
    /\ pc = "failed"
    /\ Last(log).kind = "chunk"
    /\ cancelState = "none"
    /\ session.status = "Expired"
    /\ session.received # {}

\* ------------------------------------------------ claims on the auth store
\* C29: a response with status 401 logs the user out (token and user null,
\* isAuthenticated false, the auth cookie expired) and the call it answers
\* is still rejected: an upload that receives it ends in 'error', and sends
\* no chunk and no complete_upload afterwards.
C29_UnauthorizedLogsOut ==
    [][ /\ ( net = "unauthorized" /\ net' # net )
           => /\ token' = Null /\ user' = Null /\ ~ isAuthenticated'
              /\ cookie' = NoCookie
              /\ pc' = "failed"
              /\ Last(events').status = "error"
              /\ \A i \in findUpload(uploads', LocalId) :
                    uploads'[i].progress.status = "error"
        /\ ( pc = "failed" /\ Last(log).op = "unauthorized" )
           => ( log' = log /\ net' = "none" /\ pc' = "failed" ) ]_vars

\* chunk 2 was answered 401: the user is logged out and the run has failed
C29_Witness ==
    /\ pc = "failed"
    /\ Last(log) = ReplyEntry("unauthorized", "chunk", 2)
    /\ token = Null
    /\ cookie = NoCookie
    /\ pathname = LoginPath

\* --------------------------------------------------------- navigation
MaxRedirects == 4

\* the middleware answers the request for pathname: a redirect is followed
\* by a request for its target, a request passed through mounts the page
Middleware ==
    /\ nav = "request"
    /\ LET target == middleware(pathname, cookie)
       IN  IF target = pathname
           THEN /\ nav' = "mount"
                /\ UNCHANGED << pathname, redirects >>
           ELSE /\ redirects < MaxRedirects
                /\ pathname' = target
                /\ nav' = "request"
                /\ redirects' = redirects + 1
    /\ UNCHANGED authVars
    /\ UNCHANGED << uploadVars, backendVars, allocVars, listVars >>

\* the first effect of a page: initializeAuth(), setAuthInitialized(true);
\* a path without a page of the guarded kind shows as it is
PageMount ==
    /\ nav = "mount"
    /\ IF pathname \in GuardedPages
       THEN /\ initializeAuth
            /\ nav' = "guard"
       ELSE /\ UNCHANGED authVars
            /\ nav' = "settled"
    /\ UNCHANGED << pathname, redirects >>
    /\ UNCHANGED << uploadVars, backendVars, allocVars, listVars >>

\* the second effect of a page: router.push when the guard's condition
\* holds, nothing otherwise
PageGuard ==
    /\ nav = "guard"
    /\ IF GuardFires(pathname)
       THEN /\ redirects < MaxRedirects
            /\ pathname' = GuardTarget(pathname)
            /\ nav' = "request"
            /\ redirects' = redirects + 1
       ELSE /\ nav' = "settled"
            /\ UNCHANGED << pathname, redirects >>
    /\ UNCHANGED authVars
    /\ UNCHANGED << uploadVars, backendVars, allocVars, listVars >>

\* a browser opens path with any cookie and any persisted store state;
\* isLoading is not persisted
NavInit ==
    /\ UploadInit
    /\ BackendIdle
    /\ AllocIdle
    /\ user \in Users \cup { Null }
    /\ token \in Tokens \cup { Null }
    /\ isAuthenticated \in BOOLEAN
    /\ isLoading = FALSE
    /\ cookie \in Tokens \cup { NoCookie }
    /\ pathname \in Paths
    /\ nav = "request"
    /\ redirects = 0

NavNext ==
    \/ Middleware
    \/ PageMount
    \/ PageGuard

\* every effect and every redirect that can run does run
NavSpec == NavInit /\ [][NavNext]_vars /\ WF_vars(NavNext)

\* C26: from any auth-token cookie and any persisted store state, the
\* redirects of the middleware and of the pages' guards come to an end: a
\* page is reached on which no redirect fires.
C26_NavigationSettles == <>( nav = "settled" )

\* a request for '/login' has been redirected to '/', and from there back
\* to '/login', where it stays
C26_Witness ==
    /\ nav = "settled"
    /\ pathname = LoginPath
    /\ redirects = 2

\* C28: right after initializeAuth, isAuthenticated is true exactly when
\* the cookie was present and the store held a token and a user; in every
\* other case token and user are null and isAuthenticated is false, and a
\* cookie found without both a token and a user in the store is deleted.
C28_InitializeAuth ==
    [][ ( nav = "mount" /\ nav' = "guard" ) =>
          LET complete == cookie # NoCookie /\ token # Null /\ user # Null
          IN  /\ isAuthenticated' <=> complete
              /\ complete => ( token' = token /\ user' = user /\ cookie' = cookie )
              /\ ~ complete => ( token' = Null /\ user' = Null /\ cookie' = NoCookie )
              /\ isLoading' = isLoading ]_vars

\* a request for '/login' carried the cookie and was redirected to '/',
\* where initializeAuth found the store incomplete: the store is cleared
\* and the cookie deleted
C28_Witness ==
    /\ nav = "guard"
    /\ pathname = RootPath
    /\ redirects = 1
    /\ cookie = NoCookie
    /\ token = Null
    /\ user = Null
    /\ ~ isAuthenticated

\* C30: the middleware redirects a request without the cookie for a path
\* other than '/login' that does not contain '/api' to '/login', a request
\* with the cookie for '/login' to '/', and passes every other request
\* through unchanged.
C30_MiddlewareDecision ==
    [][ nav = "request" =>
          IF cookie = NoCookie /\ pathname # LoginPath
             /\ ~ \E k \in DOMAIN pathname : pathname[k] \in { "api", "apix" }
          THEN pathname' = LoginPath /\ nav' = "request"
          ELSE IF cookie # NoCookie /\ pathname = LoginPath
          THEN pathname' = RootPath /\ nav' = "request"
          ELSE pathname' = pathname /\ nav' = "mount" ]_vars

\* a request without the cookie for '/files/api' has been passed through
C30_Witness ==
    /\ pathname = << "files", "api" >>
    /\ cookie = NoCookie
    /\ nav = "settled"
    /\ redirects = 0

\* ------------------------------------------------- the store in use
\* a change of the store runs the effects of the page shown again
EffectsRerun ==
    /\ nav' = IF nav = "settled" /\ pathname \in GuardedPages THEN "guard" ELSE nav
    /\ pathname' = pathname
    /\ redirects' = 0

Login(t, u) ==
    /\ login(t, u)
    /\ EffectsRerun
    /\ UNCHANGED << uploadVars, backendVars, allocVars, listVars >>

Logout ==
    /\ logout
    /\ EffectsRerun
    /\ UNCHANGED << uploadVars, backendVars, allocVars, listVars >>

SetLoading(loading) ==
    /\ setLoading(loading)
    /\ EffectsRerun
    /\ UNCHANGED << uploadVars, backendVars, allocVars, listVars >>

\* initializeAuth is called by an effect, not by the user: the chain of
\* redirects it may start continues the one that led to the page
InitializeAuth ==
    /\ initializeAuth
    /\ nav' = IF nav = "settled" /\ pathname \in GuardedPages THEN "guard" ELSE nav
    /\ UNCHANGED << pathname, redirects >>
    /\ UNCHANGED << uploadVars, backendVars, allocVars, listVars >>

\* max-age=86400: the cookie expires
CookieExpires ==
    /\ cookie # NoCookie
    /\ cookie' = NoCookie
    /\ UNCHANGED << user, token, isAuthenticated, isLoading, navVars >>
    /\ UNCHANGED << uploadVars, backendVars, allocVars, listVars >>

\* the user opens path: the store is read back from 'auth-storage', which
\* does not keep isLoading
Visit(path) ==
    /\ pathname' = path
    /\ nav' = "request"
    /\ redirects' = 0
    /\ isLoading' = FALSE
    /\ UNCHANGED << user, token, isAuthenticated, cookie >>
    /\ UNCHANGED << uploadVars, backendVars, allocVars, listVars >>

AuthInit ==
    /\ UploadInit
    /\ BackendIdle
    /\ AllocIdle
    /\ WebIdle

AuthNext ==
    \/ \E t \in Tokens, u \in Users : Login(t, u)
    \/ Logout
    \/ \E loading \in BOOLEAN : SetLoading(loading)
    \/ InitializeAuth
    \/ CookieExpires
    \/ \E path \in Paths : Visit(path)
    \/ Middleware
    \/ PageMount
    \/ PageGuard

AuthSpec == AuthInit /\ [][AuthNext]_vars

\* C27: in every state of the store reached by login, logout, setLoading
\* and initializeAuth, isAuthenticated = true implies that token and user
\* are both non-null.
C27_AuthenticatedHasTokenAndUser ==
    isAuthenticated => ( token # Null /\ user # Null )

\* an admin is logged in, the cookie has expired, and initializeAuth has
\* not run since
C27_Witness ==
    /\ isAuthenticated
    /\ user = "admin"
    /\ token = "t2"
    /\ cookie = NoCookie

\* ------------------------------------------------ several files at once
\* handleFileSelect calls uploadFile for each valid file; every call has
\* its own id, its own closure and its own uploadFileChunked.  Chunks are
\* ListChunkSize bytes long.
ListFrame ==
    /\ UNCHANGED << clientVars, net, response, cancelVars, serverVars >>
    /\ UNCHANGED << backendVars, allocVars, webVars >>

\* the loop head of the call c: the next chunk or complete is sent
ItemLoopHead(x, c, n) ==
    /\ calls' = [ calls EXCEPT ![x] =
                    [ c EXCEPT !.chunkNumber = n,
                               !.pc = IF LoopContinues(n, c.total_chunks)
                                      THEN "chunk" ELSE "complete" ] ]
    /\ sent' = IF LoopContinues(n, c.total_chunks)
               THEN Request(x, "chunk", c.upload_id, n)
               ELSE Request(x, "complete", c.upload_id, 0)

\* uploadFile(file) up to its first await
ItemUploadFile(x) ==
    /\ calls[x].pc = "idle"
    /\ uploads' = Append(uploads, [ id |-> x, progress |-> ItemInitial(x) ])
    /\ calls' = [ calls EXCEPT ![x].pc = "initiate" ]
    /\ sent' = Request(x, "initiate", NoId, 0)
    /\ UNCHANGED << successMessage, completeCalls >>
    /\ ListFrame

\* initiate resolves with an upload_id no other session has
ItemInitiateReturns(x, id, tc) ==
    /\ calls[x].pc = "initiate"
    /\ \A y \in ItemIds : calls[y].upload_id # id
    /\ ItemLoopHead(x, [ calls[x] EXCEPT !.upload_id = id, !.total_chunks = tc ], 1)
    /\ UNCHANGED << uploads, successMessage, completeCalls >>
    /\ ListFrame

\* a progress event of the chunk in flight, ld bytes of it loaded
ItemChunkProgress(x, ld) ==
    /\ calls[x].pc = "chunk"
    /\ uploads' = setProgress(uploads, x,
                    ItemUploading(calls[x],
                        Hundred * ListChunkSize * (calls[x].chunkNumber - 1)
                          + chunkProgress(ld, ListChunkSize) * ListChunkSize))
    /\ UNCHANGED << calls, sent, successMessage, completeCalls >>
    /\ ListFrame

\* uploadChunk resolves: one more event and the loop goes on
ItemChunkReturns(x) ==
    /\ calls[x].pc = "chunk"
    /\ uploads' = setProgress(uploads, x,
                    ItemUploading(calls[x],
                        Hundred * ListChunkSize * calls[x].chunkNumber))
    /\ ItemLoopHead(x, calls[x], NextChunk(calls[x].chunkNumber))
    /\ UNCHANGED << successMessage, completeCalls >>
    /\ ListFrame

\* complete resolves: the 'completed' event, then the item is removed
ItemCompleteReturns(x) ==
    /\ calls[x].pc = "complete"
    /\ uploads' = removeItem(setProgress(uploads, x, ItemCompleted(calls[x])), x)
    /\ successMessage' = TRUE
    /\ completeCalls' = completeCalls + 1
    /\ calls' = [ calls EXCEPT ![x].pc = "done" ]
    /\ UNCHANGED sent
    /\ ListFrame

\* an awaited request rejects: the 'error' event, then the item is marked
ItemRequestFails(x, n) ==
    /\ calls[x].pc \in { "initiate", "chunk", "complete" }
    /\ uploads' = markError(setProgress(uploads, x, ErrorEvent(ErrorMessage(n))),
                            x, ErrorMessage(n))
    /\ calls' = [ calls EXCEPT ![x].pc = "failed" ]
    /\ UNCHANGED << sent, successMessage, completeCalls >>
    /\ ListFrame

\* cancelUpload(x) up to its await
ItemCancelUpload(x) ==
    /\ calls[x].cancel = "none"
    /\ \E i \in findUpload(uploads, x) :
          /\ uploads[i].progress.status = "uploading"
          /\ IF uploads[i].progress.uploadId # NoId
             THEN /\ sent' = Request(x, "cancel", uploads[i].progress.uploadId, 0)
                  /\ calls' = [ calls EXCEPT ![x].cancel = "toServer" ]
                  /\ uploads' = uploads
             ELSE /\ sent' = sent
                  /\ calls' = [ calls EXCEPT ![x].cancel = "done" ]
                  /\ uploads' = removeItem(uploads, x)
    /\ UNCHANGED << successMessage, completeCalls >>
    /\ ListFrame

\* cancelChunkedUpload settles and the item is removed
ItemCancelReturns(x) ==
    /\ calls[x].cancel = "toServer"
    /\ calls' = [ calls EXCEPT ![x].cancel = "done" ]
    /\ uploads' = removeItem(uploads, x)
    /\ UNCHANGED << sent, successMessage, completeCalls >>
    /\ ListFrame

ListInit == Init

ListNext ==
    \/ \E x \in ItemIds : ItemUploadFile(x)
    \/ \E x \in ItemIds, id \in UploadIds, tc \in 1 .. MaxListChunks :
          ItemInitiateReturns(x, id, tc)
    \/ \E x \in ItemIds, ld \in 1 .. ListChunkSize - 1 : ItemChunkProgress(x, ld)
    \/ \E x \in ItemIds : ItemChunkReturns(x)
    \/ \E x \in ItemIds : ItemCompleteReturns(x)
    \/ \E x \in ItemIds, n \in { "rejected", "netErr" } : ItemRequestFails(x, n)
    \/ \E x \in ItemIds : ItemCancelUpload(x)
    \/ \E x \in ItemIds : ItemCancelReturns(x)

ListSpec == ListInit /\ [][ListNext]_vars

\* every item but x is left as it was: its entry of the list and its call
OtherItemsUnchanged(x) ==
    \A y \in ItemIds \ { x } :
        /\ ItemsOf(uploads', y) = ItemsOf(uploads, y)
        /\ calls'[y] = calls[y]

\* the request a step of item x has sent, if any, is initiate or is
\* addressed to the session of x
RequestsForSessionOf(x) ==
    sent' # sent =>
        /\ sent'.item = x
        /\ IF sent'.kind = "initiate"
           THEN sent'.id = NoId
           ELSE sent'.id # NoId /\ sent'.id = calls'[x].upload_id

\* C23: every step of the component is the step of one item: the entries
\* and calls of all other items are unchanged, and a request it sends is a
\* request for that item's session.
C23_ItemsIndependent ==
    [][ \E x \in ItemIds : OtherItemsUnchanged(x) /\ RequestsForSessionOf(x) ]_vars

\* the part of C23 that is about the other items only
C23_OtherItemsUntouched ==
    [][ \E x \in ItemIds :
          /\ OtherItemsUnchanged(x)
          /\ sent' # sent =>
               \A y \in ItemIds \ { x } :
                   sent'.id \notin { y, calls[y].upload_id } \ { NoId } ]_vars

====
